---------------------------- MODULE Spec2Model ----------------------------
(***************************************************************************)
(* Todo list: the REST handlers of backend/server.js over the todos table  *)
(* and the browser client (fetch + local mirror + filter + render).        *)
(*                                                                         *)
(* Strings are run-length encoded: a string is a sequence of runs          *)
(* [c |-> character, n |-> repetitions >= 1], so that a title of 501       *)
(* characters is one run and VARCHAR(500) keeps its real width.            *)
(* The database is MariaDB in its default (strict) SQL mode: a value       *)
(* longer than the column makes the statement fail.  No storage fault      *)
(* (lost connection, pool timeout) is modelled.                            *)
(***************************************************************************)
EXTENDS Integers, Sequences, FiniteSets, TLC

\* ------------------------------------------------------------------ bounds
MaxId == 2          \* rows ever inserted (API spec)
MaxTime == 1        \* seconds the database clock advances (API spec)
MaxActions == 2     \* user actions after the page load (client spec)
MaxFaults == 1      \* network errors (client spec)

\* ------------------------------------------------------- program constants
VarcharMax == 500

VARIABLES
    table,          \* todos table: id -> row
    nextId,         \* AUTO_INCREMENT counter of todos.id
    now,            \* CURRENT_TIMESTAMP, in whole seconds
    assigned,       \* history: every id an INSERT has ever been given
    put,            \* the PUT handler that is between two of its queries
    resp,           \* the response the server sent last (API callers)
    todos,          \* client: the mirror array
    currentFilter,  \* client: 'all' | 'active' | 'completed'
    displayed,      \* client: the items of #todo-list, as last rendered
    panel,          \* client: 'loading' | 'error' | 'rendered'
    tasks,          \* client: the async functions awaiting a fetch
    actions,        \* client: user actions taken so far
    faults,         \* network errors so far
    failed          \* whether a request of the client has failed so far

srvVars == <<table, nextId, now, assigned>>
apiVars == <<put, resp>>
cliVars == <<todos, currentFilter, displayed, panel, tasks, actions, faults, failed>>

\* ----------------------------------------------------------------- strings
SP == " "

Run(c, n) == [c |-> c, n |-> n]

RECURSIVE StrLen(_)
StrLen(s) == IF s = <<>> THEN 0 ELSE s[1].n + StrLen(Tail(s))

SetMin(S) == CHOOSE x \in S : \A y \in S : x <= y
SetMax(S) == CHOOSE x \in S : \A y \in S : x >= y

\* String.prototype.trim: leading and trailing whitespace runs removed
trim(s) ==
    LET ink == {i \in DOMAIN s : s[i].c # SP}
    IN  IF ink = {} THEN <<>> ELSE SubSeq(s, SetMin(ink), SetMax(ink))

\* a JSON body field holding a string, or absent (undefined)
Undef == [def |-> FALSE, s |-> <<>>]
Str(s) == [def |-> TRUE, s |-> s]

Empty == <<>>
Blank == <<Run(SP, 2)>>
PadA == <<Run(SP, 1), Run("a", 1), Run(SP, 1)>>
PadFull == <<Run(SP, 1), Run("b", VarcharMax)>>
TooLong == <<Run("b", VarcharMax + 1)>>

TitleInputs == {Undef, Str(Empty), Str(Blank), Str(PadA), Str(PadFull), Str(TooLong)}
FlagInputs == {"undefined", "true", "false"}
Body(title, completed) == [title |-> title, completed |-> completed]
\* the PUT bodies API callers send
PutBodies ==
    { Body(Undef, "undefined"), Body(Str(Empty), "undefined"),
      Body(Str(Blank), "true"), Body(Str(PadFull), "undefined"),
      Body(Str(TooLong), "undefined"), Body(Undef, "true"),
      Body(Undef, "false"), Body(Str(PadA), "true") }
Ids == 1..(MaxId + 1)

\* -------------------------------------------------------------------- rows
NoItem == [id |-> 0, title |-> <<>>, completed |-> FALSE, created_at |-> 0]

Row(id, title, completed, t) ==
    [id |-> id, title |-> title, completed |-> completed, created_at |-> t]

\* -------------------------------------------------------------- statements
\* INSERT INTO todos (title, completed) VALUES (?, FALSE)
InsertReusingIds(tbl, nid, t, title) ==
    LET id == IF DOMAIN tbl = {} THEN 1 ELSE SetMax(DOMAIN tbl) + 1
    IN  IF StrLen(title) > VarcharMax
        THEN [err |-> TRUE, table |-> tbl, nextId |-> nid, insertId |-> 0]
        ELSE [err |-> FALSE,
              table |-> (id :> Row(id, title, FALSE, t)) @@ tbl,
              nextId |-> id + 1, insertId |-> id]

Insert(tbl, nid, t, title) ==
    IF StrLen(title) > VarcharMax
    THEN [err |-> TRUE, table |-> tbl, nextId |-> nid, insertId |-> 0]
    ELSE [err |-> FALSE,
          table |-> (nid :> Row(nid, title, FALSE, t)) @@ tbl,
          nextId |-> nid + 1, insertId |-> nid]

\* SELECT ... FROM todos ORDER BY created_at DESC: every order of the rows
\* in which created_at never increases; rows of the same second come in
\* whatever order the engine produces them
ListOrders(tbl) ==
    LET n == Cardinality(DOMAIN tbl)
    IN  {s \in [1..n -> DOMAIN tbl] :
            /\ \A i, j \in 1..n : i # j => s[i] # s[j]
            /\ \A i, j \in 1..n :
                 i < j => tbl[s[i]].created_at >= tbl[s[j]].created_at}

\* UPDATE todos SET <updates> WHERE id = ?
UpdateAllFields(tbl, id, updates) ==
    IF id \notin DOMAIN tbl
    THEN [err |-> FALSE, table |-> tbl]
    ELSE IF updates.title.def /\ StrLen(updates.title.s) > VarcharMax
    THEN [err |-> TRUE, table |-> tbl]
    ELSE [err |-> FALSE,
          table |-> [tbl EXCEPT
                ![id].title = updates.title.s,
                ![id].completed = (updates.completed = "true")]]

Update(tbl, id, updates) ==
    IF id \notin DOMAIN tbl
    THEN [err |-> FALSE, table |-> tbl]
    ELSE IF updates.title.def /\ StrLen(updates.title.s) > VarcharMax
    THEN [err |-> TRUE, table |-> tbl]
    ELSE [err |-> FALSE,
          table |-> [tbl EXCEPT
                ![id].title = IF updates.title.def THEN updates.title.s ELSE @,
                ![id].completed = IF updates.completed = "undefined" THEN @
                                  ELSE updates.completed = "true"]]

\* DELETE FROM todos WHERE id = ?
DeleteAnyRow(tbl, id) ==
    LET hit == IF id \in DOMAIN tbl THEN id
               ELSE IF DOMAIN tbl = {} THEN id ELSE SetMin(DOMAIN tbl)
    IN  [affectedRows |-> IF hit \in DOMAIN tbl THEN 1 ELSE 0,
         table |-> [i \in DOMAIN tbl \ {hit} |-> tbl[i]]]

Delete(tbl, id) ==
    [affectedRows |-> IF id \in DOMAIN tbl THEN 1 ELSE 0,
     table |-> [i \in DOMAIN tbl \ {id} |-> tbl[i]]]

\* ---------------------------------------------------------------- handlers
\* Each handler step is one query and the synchronous code after it; it
\* yields the new table and counter and, when the handler answers, a status
\* (0: the handler goes on to its next query) with its item or its error message.
Answer(tbl, nid, status, item, error) ==
    [table |-> tbl, nextId |-> nid, status |-> status, item |-> item,
     error |-> error]

\* app.get('/api/todos/:id')
GetTodo(tbl, nid, id) ==
    IF id \notin DOMAIN tbl
    THEN Answer(tbl, nid, 404, NoItem, "Todo not found")
    ELSE Answer(tbl, nid, 200, tbl[id], "")

\* app.post('/api/todos')
PostTodo(tbl, nid, t, title) ==
    IF ~title.def \/ title.s = <<>> \/ trim(title.s) = <<>>
    THEN Answer(tbl, nid, 400, NoItem, "Title is required")
    ELSE LET r == Insert(tbl, nid, t, trim(title.s))
         IN  IF r.err
             THEN Answer(tbl, nid, 500, NoItem, "Failed to create todo")
             ELSE Answer(r.table, r.nextId, 201,
                         Row(r.insertId, trim(title.s), FALSE, t), "")

\* app.put('/api/todos/:id'), from the existence check to the UPDATE
NoUpdates == [title |-> Undef, completed |-> "undefined"]

PutCheckBodyFirst(tbl, id, title, completed) ==
    IF title.def /\ trim(title.s) = <<>>
    THEN [status |-> 400, error |-> "Title cannot be empty", updates |-> NoUpdates]
    ELSE IF ~title.def /\ completed = "undefined"
    THEN [status |-> 400, error |-> "No fields to update", updates |-> NoUpdates]
    ELSE IF id \notin DOMAIN tbl
    THEN [status |-> 404, error |-> "Todo not found", updates |-> NoUpdates]
    ELSE [status |-> 0, error |-> "",
          updates |-> [title |-> IF title.def THEN Str(trim(title.s)) ELSE Undef,
                       completed |-> completed]]

PutCheckPartial(tbl, id, title, completed) ==
    IF id \notin DOMAIN tbl
    THEN [status |-> 404, error |-> "Todo not found", updates |-> NoUpdates]
    ELSE IF title.def /\ trim(title.s) = <<>> /\ completed = "undefined"
    THEN [status |-> 400, error |-> "Title cannot be empty", updates |-> NoUpdates]
    ELSE IF ~title.def /\ completed = "undefined"
    THEN [status |-> 400, error |-> "No fields to update", updates |-> NoUpdates]
    ELSE [status |-> 0, error |-> "",
          updates |-> [title |-> IF title.def /\ trim(title.s) # <<>>
                                 THEN Str(trim(title.s)) ELSE Undef,
                       completed |-> completed]]

PutCheck(tbl, id, title, completed) ==
    IF id \notin DOMAIN tbl
    THEN [status |-> 404, error |-> "Todo not found", updates |-> NoUpdates]
    ELSE IF title.def /\ trim(title.s) = <<>>
    THEN [status |-> 400, error |-> "Title cannot be empty", updates |-> NoUpdates]
    ELSE IF ~title.def /\ completed = "undefined"
    THEN [status |-> 400, error |-> "No fields to update", updates |-> NoUpdates]
    ELSE [status |-> 0, error |-> "",
          updates |-> [title |-> IF title.def THEN Str(trim(title.s)) ELSE Undef,
                       completed |-> completed]]

\* ... the UPDATE: a statement error is caught and answered 500
PutUpdate(tbl, nid, id, updates) ==
    LET r == Update(tbl, id, updates)
    IN  IF r.err THEN Answer(tbl, nid, 500, NoItem, "Failed to update todo")
        ELSE Answer(r.table, nid, 0, NoItem, "")

\* ... the final SELECT: rows[0] of an empty result is undefined, reading
\* its id throws, and the catch answers 500
PutFetch(tbl, nid, id) ==
    IF id \notin DOMAIN tbl
    THEN Answer(tbl, nid, 500, NoItem, "Failed to update todo")
    ELSE Answer(tbl, nid, 200, tbl[id], "")

\* app.delete('/api/todos/:id')
DeleteTodo(tbl, nid, id) ==
    LET r == Delete(tbl, id)
    IN  IF r.affectedRows = 0
        THEN Answer(tbl, nid, 404, NoItem, "Todo not found")
        ELSE Answer(r.table, nid, 200, NoItem, "")

\* ------------------------------------------------------------- API callers
\* One PUT handler at a time is followed through its three queries; every
\* other request (a PUT included) runs between two of them.
IdlePut == [pc |-> "idle", id |-> 0, updates |-> NoUpdates]

Resp(op, status, item, list, error) ==
    [op |-> op, status |-> status, item |-> item, list |-> list, error |-> error]

Init ==
    /\ table = <<>>
    /\ nextId = 1
    /\ now = 0
    /\ assigned = {}
    /\ put = IdlePut
    /\ resp = Resp("none", 0, NoItem, <<>>, "")
    /\ todos = <<>>
    /\ currentFilter = "all"
    /\ displayed = <<>>
    /\ panel = "loading"
    /\ tasks = <<>>
    /\ actions = 0
    /\ faults = 0
    /\ failed = FALSE

\* the database clock passes a second boundary
Tick ==
    /\ now < MaxTime
    /\ now' = now + 1
    /\ UNCHANGED <<table, nextId, assigned, put, resp, cliVars>>

ApiGetAll ==
    /\ \E s \in ListOrders(table) :
          resp' = Resp("GETALL", 200, NoItem, [i \in DOMAIN s |-> table[s[i]]], "")
    /\ UNCHANGED <<srvVars, put, cliVars>>

ApiGet(id) ==
    LET r == GetTodo(table, nextId, id)
    IN  /\ resp' = Resp("GET", r.status, r.item, <<>>, r.error)
        /\ UNCHANGED <<srvVars, put, cliVars>>

ApiPost(title) ==
    LET r == PostTodo(table, nextId, now, title)
    IN  /\ r.nextId <= MaxId + 1
        /\ table' = r.table
        /\ nextId' = r.nextId
        /\ assigned' = IF r.status = 201 THEN assigned \cup {r.item.id} ELSE assigned
        /\ resp' = Resp("POST", r.status, r.item, <<>>, r.error)
        /\ UNCHANGED <<now, put, cliVars>>

ApiPutBegin(id, title, completed) ==
    LET r == PutCheck(table, id, title, completed)
    IN  /\ put.pc = "idle"
        /\ IF r.status = 0
           THEN /\ put' = [pc |-> "update", id |-> id, updates |-> r.updates]
                /\ UNCHANGED resp
           ELSE /\ resp' = Resp("PUT", r.status, NoItem, <<>>, r.error)
                /\ UNCHANGED put
        /\ UNCHANGED <<srvVars, cliVars>>

ApiPutUpdate ==
    LET r == PutUpdate(table, nextId, put.id, put.updates)
    IN  /\ put.pc = "update"
        /\ table' = r.table
        /\ IF r.status = 0
           THEN /\ put' = [put EXCEPT !.pc = "fetch"]
                /\ UNCHANGED resp
           ELSE /\ put' = IdlePut
                /\ resp' = Resp("PUT", r.status, NoItem, <<>>, r.error)
        /\ UNCHANGED <<nextId, now, assigned, cliVars>>

ApiPutFetch ==
    LET r == PutFetch(table, nextId, put.id)
    IN  /\ put.pc = "fetch"
        /\ put' = IdlePut
        /\ resp' = Resp("PUT", r.status, r.item, <<>>, r.error)
        /\ UNCHANGED <<srvVars, cliVars>>

ApiDelete(id) ==
    LET r == DeleteTodo(table, nextId, id)
    IN  /\ table' = r.table
        /\ resp' = Resp("DELETE", r.status, NoItem, <<>>, r.error)
        /\ UNCHANGED <<nextId, now, assigned, put, cliVars>>

vars == <<table, nextId, now, assigned, put, resp,
         todos, currentFilter, displayed, panel, tasks, actions, faults, failed>>

Next ==
    \/ Tick
    \/ ApiGetAll
    \/ \E id \in Ids : ApiGet(id)
    \/ \E title \in TitleInputs : ApiPost(title)
    \/ \E id \in Ids, b \in PutBodies : ApiPutBegin(id, b.title, b.completed)
    \/ ApiPutUpdate
    \/ ApiPutFetch
    \/ \E id \in Ids : ApiDelete(id)

Spec == Init /\ [][Next]_vars

\* ------------------------------------------------------------------ client
TitleA == <<Run("a", 1)>>
TypedInputs == {Blank, PadA}
Filters == {"all", "active", "completed"}

\* getFilteredTodos
getFilteredTodosSwapped(tds, filter) ==
    IF filter = "active" THEN SelectSeq(tds, LAMBDA t : t.completed)
    ELSE IF filter = "completed" THEN SelectSeq(tds, LAMBDA t : ~t.completed)
    ELSE tds

getFilteredTodos(tds, filter) ==
    IF filter = "active" THEN SelectSeq(tds, LAMBDA t : ~t.completed)
    ELSE IF filter = "completed" THEN SelectSeq(tds, LAMBDA t : t.completed)
    ELSE tds

\* renderTodos: the list element is rebuilt from the filtered mirror
renderTodos(tds, filter) == getFilteredTodos(tds, filter)

\* todos.findIndex(t => t.id === id), 0 when there is none
findIndex(tds, id) ==
    LET hits == {i \in DOMAIN tds : tds[i].id = id}
    IN  IF hits = {} THEN 0 ELSE SetMin(hits)

IdsOf(tds) == [i \in DOMAIN tds |-> tds[i].id]

RemoveAt(seq, i) == SubSeq(seq, 1, i - 1) \o SubSeq(seq, i + 1, Len(seq))

\* an async function of the client suspended at `await fetch(...)`:
\* pc is where its request is (sent: not yet handled by the server;
\* update, fetch: a PUT between its queries; replied: the response, or the
\* rejection of fetch when status is 0, is ready for the continuation)
Task(kind, call, id, title, flag, rest, ok, sentActive) ==
    [kind |-> kind, call |-> call, pc |-> "sent", id |-> id, title |-> title,
     flag |-> flag, updates |-> NoUpdates, status |-> 0, item |-> NoItem,
     list |-> <<>>, rest |-> rest, ok |-> ok, sentActive |-> sentActive]

FetchTask == Task("fetch", "GETALL", 0, Undef, "undefined", <<>>, TRUE, FALSE)

\* the completed flags of the rows earlier sessions have left in the table
StoredFlags ==
    { <<>>, <<FALSE>>, <<TRUE>>, <<FALSE, FALSE>>, <<FALSE, TRUE>>,
      <<TRUE, FALSE>>, <<TRUE, TRUE>> }

\* the page has loaded over a table earlier sessions have filled, one row a
\* second: init() has called fetchTodos, which awaits the list.  The clock
\* stands still from here on, so the rows the session adds share their
\* second and the list may return them in any order.
ClientInit ==
    /\ \E f \in StoredFlags :
          /\ table = [i \in DOMAIN f |-> Row(i, TitleA, f[i], i - 1)]
          /\ nextId = Len(f) + 1
          /\ assigned = DOMAIN f
          /\ now = Len(f)
    /\ put = IdlePut
    /\ resp = Resp("none", 0, NoItem, <<>>, "")
    /\ todos = <<>>
    /\ currentFilter = "all"
    /\ displayed = <<>>
    /\ panel = "loading"
    /\ tasks = <<FetchTask>>
    /\ actions = 0
    /\ faults = 0
    /\ failed = FALSE

Replied(t, status, item, list) ==
    [t EXCEPT !.pc = "replied", !.status = status, !.item = item, !.list = list]

\* the server handles the next query of task i's request
SrvStep(i) ==
    LET t == tasks[i]
    IN  /\ t.pc \in {"sent", "update", "fetch"}
        /\ CASE t.call = "GETALL" ->
                  /\ \E s \in ListOrders(table) :
                        tasks' = [tasks EXCEPT ![i] =
                           Replied(t, 200, NoItem, [j \in DOMAIN s |-> table[s[j]]])]
                  /\ UNCHANGED <<table, nextId, assigned>>
             [] t.call = "POST" ->
                  LET r == PostTodo(table, nextId, now, t.title)
                  IN  /\ table' = r.table
                      /\ nextId' = r.nextId
                      /\ assigned' = IF r.status = 201
                                     THEN assigned \cup {r.item.id} ELSE assigned
                      /\ tasks' = [tasks EXCEPT ![i] = Replied(t, r.status, r.item, <<>>)]
             [] t.call = "DELETE" ->
                  LET r == DeleteTodo(table, nextId, t.id)
                  IN  /\ table' = r.table
                      /\ tasks' = [tasks EXCEPT ![i] = Replied(t, r.status, NoItem, <<>>)]
                      /\ UNCHANGED <<nextId, assigned>>
             [] t.call = "PUT" /\ t.pc = "sent" ->
                  LET r == PutCheck(table, t.id, Undef, t.flag)
                  IN  /\ tasks' = [tasks EXCEPT ![i] =
                            IF r.status = 0
                            THEN [t EXCEPT !.pc = "update", !.updates = r.updates]
                            ELSE Replied(t, r.status, NoItem, <<>>)]
                      /\ UNCHANGED <<table, nextId, assigned>>
             [] t.call = "PUT" /\ t.pc = "update" ->
                  LET r == PutUpdate(table, nextId, t.id, t.updates)
                  IN  /\ table' = r.table
                      /\ tasks' = [tasks EXCEPT ![i] =
                            IF r.status = 0
                            THEN [t EXCEPT !.pc = "fetch", !.updates = NoUpdates]
                            ELSE Replied([t EXCEPT !.updates = NoUpdates],
                                         r.status, NoItem, <<>>)]
                      /\ UNCHANGED <<nextId, assigned>>
             [] t.call = "PUT" /\ t.pc = "fetch" ->
                  LET r == PutFetch(table, nextId, t.id)
                  IN  /\ tasks' = [tasks EXCEPT ![i] = Replied(t, r.status, r.item, <<>>)]
                      /\ UNCHANGED <<table, nextId, assigned>>
        /\ UNCHANGED <<now, put, resp, todos, currentFilter, displayed, panel,
                       actions, faults, failed>>

\* fetch rejects: the request never reaches the server
RequestLost(i) ==
    /\ faults < MaxFaults
    /\ tasks[i].pc = "sent"
    /\ tasks' = [tasks EXCEPT ![i] = Replied(tasks[i], 0, NoItem, <<>>)]
    /\ faults' = faults + 1
    /\ UNCHANGED failed
    /\ UNCHANGED <<srvVars, put, resp, todos, currentFilter, displayed, panel, actions>>

\* fetch rejects: the server has answered and the response is lost
ResponseLost(i) ==
    /\ faults < MaxFaults
    /\ tasks[i].pc = "replied"
    /\ tasks[i].status # 0
    /\ tasks' = [tasks EXCEPT ![i] = Replied(tasks[i], 0, NoItem, <<>>)]
    /\ faults' = faults + 1
    /\ UNCHANGED failed
    /\ UNCHANGED <<srvVars, put, resp, todos, currentFilter, displayed, panel, actions>>

Ok(t) == t.status \in {200, 201}

\* fetchTodos after its await
fetchTodosDone(t) ==
    IF Ok(t)
    THEN /\ todos' = t.list
         /\ displayed' = renderTodos(t.list, currentFilter)
         /\ panel' = "rendered"
    ELSE /\ panel' = "error"
         /\ UNCHANGED <<todos, displayed>>

\* createTodo after its await
createTodoDone(t) ==
    IF Ok(t)
    THEN /\ todos' = <<t.item>> \o todos
         /\ displayed' = renderTodos(<<t.item>> \o todos, currentFilter)
         /\ panel' = "rendered"
    ELSE UNCHANGED <<todos, displayed, panel>>

\* updateTodo after its await, the response being ok
updateTodoPatch(t) ==
    LET index == findIndex(todos, t.id)
        tds == IF index # 0 THEN [todos EXCEPT ![index] = t.item] ELSE todos
    IN  /\ todos' = tds
        /\ displayed' = renderTodos(tds, currentFilter)
        /\ panel' = "rendered"

\* deleteTodo after its await
deleteTodoDone(t) ==
    IF Ok(t)
    THEN LET tds == SelectSeq(todos, LAMBDA x : x.id # t.id)
         IN  /\ todos' = tds
             /\ displayed' = renderTodos(tds, currentFilter)
             /\ panel' = "rendered"
    ELSE UNCHANGED <<todos, displayed, panel>>

\* whether item id is active both in the mirror tds and in the table
IsActive(tds, id) ==
    /\ id \in DOMAIN table /\ ~table[id].completed
    /\ findIndex(tds, id) # 0 /\ ~tds[findIndex(tds, id)].completed

\* the continuation of task i runs on its response, up to its next await
Continue(i) ==
    LET t == tasks[i]
    IN  /\ t.pc = "replied"
        /\ CASE t.call = "GETALL" ->
                  /\ fetchTodosDone(t)
                  /\ tasks' = RemoveAt(tasks, i)
             [] t.call = "POST" ->
                  /\ createTodoDone(t)
                  /\ tasks' = RemoveAt(tasks, i)
             [] t.call = "PUT" /\ Ok(t) ->
                  /\ updateTodoPatch(t)
                  /\ tasks' = RemoveAt(tasks, i)
             [] t.call = "PUT" /\ ~Ok(t) ->
                  \* catch: toast, then await fetchTodos()
                  /\ panel' = "loading"
                  /\ tasks' = [tasks EXCEPT ![i] =
                        Task("update", "GETALL", 0, Undef, "undefined", <<>>, FALSE, FALSE)]
                  /\ UNCHANGED <<todos, displayed>>
             [] t.call = "DELETE" /\ t.kind = "delete" ->
                  /\ deleteTodoDone(t)
                  /\ tasks' = RemoveAt(tasks, i)
             [] t.call = "DELETE" /\ t.kind = "clear" ->
                  /\ deleteTodoDone(t)
                  /\ IF t.rest = <<>>
                     THEN tasks' = RemoveAt(tasks, i)
                     ELSE tasks' = [tasks EXCEPT ![i] =
                            Task("clear", "DELETE", Head(t.rest), Undef, "undefined",
                                 Tail(t.rest), t.ok /\ Ok(t),
                                 t.sentActive \/ IsActive(todos', Head(t.rest)))]
        /\ failed' = (failed \/ ~Ok(t))
        /\ UNCHANGED <<srvVars, put, resp, currentFilter, actions, faults>>

\* ------------------------------------------------------------ user actions
Start(t) ==
    /\ actions < MaxActions
    /\ actions' = actions + 1
    /\ tasks' = Append(tasks, t)

\* the Retry button of the error panel: fetchTodos
UserRetry ==
    /\ panel = "error"
    /\ Start(FetchTask)
    /\ panel' = "loading"
    /\ UNCHANGED <<srvVars, put, resp, todos, currentFilter, displayed, faults, failed>>

\* handleAddTodo on the form's submit
handleAddTodo(typed) ==
    LET title == trim(typed)
    IN  /\ actions < MaxActions
        /\ actions' = actions + 1
        /\ tasks' = IF title = <<>> THEN tasks
                    ELSE Append(tasks, Task("create", "POST", 0, Str(title),
                                            "undefined", <<>>, TRUE, FALSE))
        /\ UNCHANGED <<srvVars, put, resp, todos, currentFilter, displayed, panel, faults, failed>>

\* handleToggle on a displayed item's checkbox
handleToggle(id) ==
    LET index == findIndex(todos, id)
    IN  /\ \E i \in DOMAIN displayed : displayed[i].id = id
        /\ index # 0
        /\ Start(Task("update", "PUT", id, Undef,
                      IF todos[index].completed THEN "false" ELSE "true",
                      <<>>, TRUE, FALSE))
        /\ UNCHANGED <<srvVars, put, resp, todos, currentFilter, displayed, panel, faults, failed>>

\* handleDelete on a displayed item's delete button
handleDelete(id) ==
    /\ \E i \in DOMAIN displayed : displayed[i].id = id
    /\ Start(Task("delete", "DELETE", id, Undef, "undefined", <<>>, TRUE, FALSE))
    /\ UNCHANGED <<srvVars, put, resp, todos, currentFilter, displayed, panel, faults, failed>>

\* handleClearCompleted on the button shown while the mirror holds a
\* completed item: the completed items are listed once, then deleted in turn
handleClearCompleted ==
    LET completedTodos == IdsOf(SelectSeq(todos, LAMBDA t : t.completed))
    IN  /\ completedTodos # <<>>
        /\ Start(Task("clear", "DELETE", Head(completedTodos), Undef, "undefined",
                      Tail(completedTodos), TRUE, IsActive(todos, Head(completedTodos))))
        /\ UNCHANGED <<srvVars, put, resp, todos, currentFilter, displayed, panel, faults, failed>>

\* setFilter on a filter button
setFilter(filter) ==
    /\ actions < MaxActions
    /\ actions' = actions + 1
    /\ currentFilter' = filter
    /\ displayed' = renderTodos(todos, filter)
    /\ panel' = "rendered"
    /\ UNCHANGED <<srvVars, put, resp, todos, tasks, faults, failed>>

ClientNext ==
    \/ \E i \in DOMAIN tasks : SrvStep(i)
    \/ \E i \in DOMAIN tasks : RequestLost(i)
    \/ \E i \in DOMAIN tasks : ResponseLost(i)
    \/ \E i \in DOMAIN tasks : Continue(i)
    \/ UserRetry
    \/ \E typed \in TypedInputs : handleAddTodo(typed)
    \/ \E i \in DOMAIN displayed : handleToggle(displayed[i].id)
    \/ \E i \in DOMAIN displayed : handleDelete(displayed[i].id)
    \/ handleClearCompleted
    \/ \E filter \in Filters : setFilter(filter)

ClientSpec == ClientInit /\ [][ClientNext]_vars

\* ------------------------------------------------------------------ claims
Valid(title) == title.def /\ trim(title.s) # <<>>
Fits(title) == StrLen(trim(title.s)) <= VarcharMax

\* what a POST that creates an item does: 201, the item returned, a fresh
\* and larger id, exactly one row more
PostCreated(title) ==
    LET id == resp'.item.id
    IN  /\ resp'.op = "POST" /\ resp'.status = 201
        /\ resp'.item.completed = FALSE
        /\ resp'.item.title = trim(title.s)
        /\ id \notin assigned
        /\ \A a \in assigned : id > a
        /\ id \notin DOMAIN table
        /\ DOMAIN table' = DOMAIN table \cup {id}
        /\ \A i \in DOMAIN table : table'[i] = table[i]
        /\ table'[id].id = id
        /\ table'[id].title = trim(title.s)
        /\ table'[id].completed = FALSE

\* C1 as stated: every POST whose title is a string that is non-empty
\* after trimming is answered 201 with the trimmed title, completed false
\* and an id never assigned before and larger than all earlier ones, and
\* adds exactly that item.
C1_PostAnyTitleCreates ==
    [][\A title \in TitleInputs :
          (Valid(title) /\ ApiPost(title)) => PostCreated(title)]_vars

\* C1 amended: the same for a title of at most 500 characters after
\* trimming (a longer one does not fit VARCHAR(500): the INSERT fails and
\* the POST is answered 500).
C1_PostCreates ==
    [][\A title \in TitleInputs :
          (Valid(title) /\ Fits(title) /\ ApiPost(title)) => PostCreated(title)]_vars

\* a POST was answered 201 with a trimmed title after an earlier item was
\* deleted
C1_Witness ==
    /\ resp.op = "POST" /\ resp.status = 201
    /\ resp.item.title = TitleA
    /\ resp.item.id \in DOMAIN table
    /\ assigned \ DOMAIN table # {}

\* C2: a POST whose title is missing, empty or whitespace, and a PUT on an
\* existing item whose title is empty or whitespace (whether or not the
\* body supplies completed), are answered 400 and change nothing: no row is
\* added, no field of the item changes, and the PUT does not go on to its
\* UPDATE.
C2_BlankTitleRejected ==
    [][/\ \A title \in TitleInputs :
             (~Valid(title) /\ ApiPost(title)) =>
                 /\ resp'.op = "POST" /\ resp'.status = 400
                 /\ table' = table /\ nextId' = nextId
       /\ \A id \in DOMAIN table : \A b \in PutBodies :
             (b.title.def /\ trim(b.title.s) = <<>>
                 /\ ApiPutBegin(id, b.title, b.completed)) =>
                 /\ resp'.op = "PUT" /\ resp'.status = 400
                 /\ table' = table /\ put' = put]_vars

\* a PUT on an existing item was refused for its empty title
C2_Witness ==
    /\ resp.op = "PUT" /\ resp.status = 400
    /\ resp.error = "Title cannot be empty"
    /\ table # <<>>

\* C3: GET, PUT (whatever its body) and DELETE on an id that is not in the
\* table are answered 404 and leave the table unchanged; a DELETE on an id
\* that is in the table is answered 200 and removes exactly that row.
C3_UnknownIdNotFound ==
    [][\A id \in Ids :
         /\ (id \notin DOMAIN table /\ ApiGet(id)) =>
               (resp'.status = 404 /\ table' = table)
         /\ \A b \in PutBodies :
               (id \notin DOMAIN table /\ ApiPutBegin(id, b.title, b.completed)) =>
                   (resp'.op = "PUT" /\ resp'.status = 404
                        /\ table' = table /\ put' = put)
         /\ ApiDelete(id) =>
               IF id \in DOMAIN table
               THEN /\ resp'.status = 200
                    /\ DOMAIN table' = DOMAIN table \ {id}
                    /\ \A i \in DOMAIN table' : table'[i] = table[i]
               ELSE resp'.status = 404 /\ table' = table]_vars

\* a DELETE was answered 200 and another item is still in the table
C3_Witness ==
    /\ resp.op = "DELETE" /\ resp.status = 200
    /\ table # <<>>
    /\ assigned \ DOMAIN table # {}

\* C4 as stated: a PUT that supplies neither title nor completed is always
\* answered 400 and changes no item.
C4_EmptyBodyAlways400 ==
    [][\A id \in Ids :
          ApiPutBegin(id, Undef, "undefined") =>
              (resp'.op = "PUT" /\ resp'.status = 400 /\ table' = table)]_vars

\* C4 amended: such a PUT changes no item and is answered 400 when the id
\* is in the table, 404 when it is not.
C4_EmptyBodyRejected ==
    [][\A id \in Ids :
          ApiPutBegin(id, Undef, "undefined") =>
              /\ resp'.op = "PUT"
              /\ resp'.status = IF id \in DOMAIN table THEN 400 ELSE 404
              /\ table' = table /\ put' = put]_vars

\* a PUT with neither field was refused on an existing item
C4_Witness ==
    /\ resp.op = "PUT" /\ resp.status = 400
    /\ resp.error = "No fields to update"
    /\ table # <<>>

\* C5: a PUT changes only the addressed row and only the fields its body
\* supplies (title to the trimmed label, completed to the flag): the
\* SET clause is built from the body alone, the UPDATE leaves the row's id
\* and created_at, the fields not supplied and every other row as they
\* were, and a 200 carries the row as stored.
C5_PutFrame ==
    [][/\ \A id \in Ids : \A b \in PutBodies :
             (ApiPutBegin(id, b.title, b.completed) /\ put'.pc = "update") =>
                 /\ put'.id = id
                 /\ put'.updates.title =
                        (IF b.title.def THEN Str(trim(b.title.s)) ELSE Undef)
                 /\ put'.updates.completed = b.completed
                 /\ table' = table
       /\ ApiPutUpdate =>
             /\ DOMAIN table' = DOMAIN table
             /\ \A i \in DOMAIN table \ {put.id} : table'[i] = table[i]
             /\ (put.id \in DOMAIN table /\ put'.pc = "fetch") =>
                   /\ table'[put.id].id = put.id
                   /\ table'[put.id].created_at = table[put.id].created_at
                   /\ table'[put.id].title =
                          (IF put.updates.title.def THEN put.updates.title.s
                           ELSE table[put.id].title)
                   /\ table'[put.id].completed =
                          (IF put.updates.completed = "undefined"
                           THEN table[put.id].completed
                           ELSE put.updates.completed = "true")
             /\ put'.pc # "fetch" => table' = table
       /\ ApiPutFetch =>
             /\ table' = table
             /\ resp'.status = 200 =>
                   (put.id \in DOMAIN table' /\ resp'.item = table'[put.id])]_vars

\* a PUT was answered 200 with a new title, its completed flag still set,
\* and another item is in the table
C5_Witness ==
    /\ resp.op = "PUT" /\ resp.status = 200
    /\ resp.item.title = trim(PadFull)
    /\ resp.item.completed
    /\ resp.item.id \in DOMAIN table /\ table[resp.item.id] = resp.item
    /\ Cardinality(DOMAIN table) = 2

\* C6 as stated: the list holds every row once and, of two rows, the one
\* inserted later (the larger id) comes first.
C6_ListNewestFirst ==
    [][ApiGetAll =>
          /\ Len(resp'.list) = Cardinality(DOMAIN table)
          /\ \A id \in DOMAIN table : \E i \in DOMAIN resp'.list :
                resp'.list[i] = table[id]
          /\ \A i, j \in DOMAIN resp'.list :
                i < j => resp'.list[i].id > resp'.list[j].id]_vars

\* C10 as stated: a PUT that has passed its existence check is answered 200
\* or 404 by its final SELECT, whatever runs between its queries.
C10_PutNever500 ==
    [][ApiPutFetch => resp'.status \in {200, 404}]_vars

\* the mirror holds exactly the rows of the table: the same ids, each once,
\* each with the table's title and completed flag
MirrorMatches(tds, tbl) ==
    /\ Len(tds) = Cardinality(DOMAIN tbl)
    /\ \A id \in DOMAIN tbl : \E i \in DOMAIN tds : tds[i].id = id
    /\ \A i \in DOMAIN tds :
          /\ tds[i].id \in DOMAIN tbl
          /\ tds[i].title = tbl[tds[i].id].title
          /\ tds[i].completed = tbl[tds[i].id].completed

\* task i's function returns in this step
Returns(i) == Continue(i) /\ Len(tasks') < Len(tasks)

\* C7 as stated: when the handling of a create, toggle or delete whose
\* request failed has finished (and no other request is in flight), the
\* mirror equals the server's list.
C7_FailureRevertsToServer ==
    [][\A i \in DOMAIN tasks :
          (/\ Returns(i)
           /\ Len(tasks) = 1
           /\ \/ tasks[i].kind \in {"create", "delete"} /\ ~Ok(tasks[i])
              \/ tasks[i].kind = "update" /\ tasks[i].call = "GETALL")
          => MirrorMatches(todos', table')]_vars

\* C8 as stated: when handleClearCompleted returns, every DELETE it sent
\* has succeeded and no other request is in flight, neither the mirror nor
\* the table holds a completed item, and it sent no DELETE for an item that
\* was active at that moment.
C8_ClearRemovesCompletedOnly ==
    [][\A i \in DOMAIN tasks :
          (/\ Returns(i)
           /\ Len(tasks) = 1
           /\ tasks[i].kind = "clear"
           /\ tasks[i].ok /\ Ok(tasks[i]))
          => /\ \A j \in DOMAIN todos' : ~todos'[j].completed
             /\ \A id \in DOMAIN table' : ~table'[id].completed
             /\ ~tasks[i].sentActive]_vars

\* C9: the displayed list is made of items of the mirror; under 'active'
\* none of them is completed, under 'completed' all of them are, and under
\* 'all' it is the mirror, in the mirror's order.
C9_DisplayedFollowsFilter ==
    /\ \A i \in DOMAIN displayed : \E j \in DOMAIN todos : todos[j] = displayed[i]
    /\ currentFilter = "active" => \A i \in DOMAIN displayed : ~displayed[i].completed
    /\ currentFilter = "completed" => \A i \in DOMAIN displayed : displayed[i].completed
    /\ currentFilter = "all" => displayed = todos

\* under 'active' an item is displayed while the mirror holds a completed one
C9_Witness ==
    /\ currentFilter = "active"
    /\ displayed # <<>>
    /\ \E j \in DOMAIN todos : todos[j].completed

\* C11 as stated: with no request of the client having failed, whenever no
\* request is in flight the mirror holds exactly the rows of the table (the
\* same ids, each once, each with the table's title and completed flag),
\* whatever the interleaving of page load, add, toggle, delete and clear
\* completed with the arrival of their responses.
C11_IdleMirrorEqualsTable ==
    (tasks = <<>> /\ faults = 0 /\ ~failed) => MirrorMatches(todos, table)

=============================================================================
